---- MODULE Spec2Model ----
(***************************************************************************)
(* Model of the sensirion-hdlc crate (src/src/lib.rs): the SpecialChars    *)
(* configuration, encode and decode.                                      *)
(* SpecialChars::new is a pure operator.  encode and decode are modelled   *)
(* step by step: one action per iteration of encode's loop and one action  *)
(* per call of input_iter.next() in decode, so that the position of the    *)
(* scan (before a plain byte, or after a FESC) is part of the state.       *)
(***************************************************************************)
EXTENDS Integers, Sequences, FiniteSets, TLC

VARIABLES
    s_chars,   \* the SpecialChars value handed to encode / decode
    args,      \* the 8 arguments of the last SpecialChars::new call
    newRes,    \* what that call returned
    data,      \* the payload handed to encode
    enc_pos,   \* encode: index of the payload byte the loop takes next
    enc_out,   \* encode: the ArrayVec being filled
    encRes,    \* what encode returned
    input,     \* the frame handed to decode
    pos,       \* decode: index (in the interior) of the byte next() yields next
    output,    \* decode: the ArrayVec being filled
    decRes,    \* what decode returned
    pc         \* "idle", "encode" (in encode's loop), "Normal" / "AfterEscape"
               \* (in decode's loop, before the outer / the inner next()), "done"

vars == <<s_chars, args, newRes, data, enc_pos, enc_out, encRes,
          input, pos, output, decRes, pc>>

----------------------------------------------------------------------------
(* Program constants *)

MaxEncodeData == 260      \* encode: data.len() > 260
MinDecodeInput == 4       \* decode: input.len() < 4
MaxDecodeInput == 1000    \* decode: input.len() > 1000
MaxDecodedData == 260     \* decode: output.len() > 260
Capacity == 1024          \* ArrayVec<[u8; 1024]>

(* Bounds of the model *)

MaxShort == 2             \* longest payload enumerated byte by byte
MaxInterior == 2          \* longest frame interior enumerated byte by byte

----------------------------------------------------------------------------
(* Result values *)

Ok(v) == [ok |-> TRUE, val |-> v, err |-> "None"]
Err(e) == [ok |-> FALSE, val |-> <<>>, err |-> e]
NotCalled == [ok |-> FALSE, val |-> <<>>, err |-> "NotCalled"]

NoChars == [fend |-> -1, fesc |-> -1, tfend |-> -1, tfesc |-> -1,
            ob1 |-> -1, tfob1 |-> -1, ob2 |-> -1, tfob2 |-> -1]
NewOk(c) == [ok |-> TRUE, val |-> c, err |-> "None"]
NewErr(e) == [ok |-> FALSE, val |-> NoChars, err |-> e]
NewNotCalled == [ok |-> FALSE, val |-> NoChars, err |-> "NotCalled"]

----------------------------------------------------------------------------
(* SpecialChars *)

MkChars(a) == [fend |-> a[1], fesc |-> a[2], tfend |-> a[3], tfesc |-> a[4],
               ob1 |-> a[5], tfob1 |-> a[6], ob2 |-> a[7], tfob2 |-> a[8]]

DefaultChars == [fend |-> 126, fesc |-> 125, tfend |-> 94, tfesc |-> 93,
                 ob1 |-> 17, tfob1 |-> 49, ob2 |-> 19, tfob2 |-> 51]

\* mutant: the loop stops one index early and never compares the last two
HasDuplicateShort(values) ==
    \E i \in 1..(Len(values) - 2) :
        \E k \in (i + 1)..Len(values) : values[k] = values[i]

\* for i in 0..values.len() - 1 { if values[i + 1..].contains(&values[i]) ... }
HasDuplicate(values) ==
    \E i \in 1..(Len(values) - 1) :
        \E k \in (i + 1)..Len(values) : values[k] = values[i]

SpecialCharsNew(a) ==
    IF HasDuplicate(a) THEN NewErr("DuplicateSpecialChar") ELSE NewOk(MkChars(a))

----------------------------------------------------------------------------
(* ArrayVec::push: panics when the vector is full *)

Overflow == <<-1>>

Push(out, b) ==
    IF out = Overflow \/ Len(out) >= Capacity THEN Overflow ELSE Append(out, b)

----------------------------------------------------------------------------
(* encode, lines 158-199 *)

\* mutant: >= for >
TooMuchEncodeDataGe(d) == Len(d) >= MaxEncodeData

\* if data.len() > 260
TooMuchEncodeData(d) == Len(d) > MaxEncodeData

\* mutant: the arm for fend is missing
EncodeByteNoFend(value, c) ==
    IF value = c.fesc THEN <<c.fesc, c.tfesc>>
    ELSE IF value = c.ob1 THEN <<c.fesc, c.tfob1>>
    ELSE IF value = c.ob2 THEN <<c.fesc, c.tfob2>>
    ELSE <<value>>

\* mutant: the arm for ob2 is missing
EncodeByteNoOb2(value, c) ==
    IF value = c.fesc THEN <<c.fesc, c.tfesc>>
    ELSE IF value = c.fend THEN <<c.fesc, c.tfend>>
    ELSE IF value = c.ob1 THEN <<c.fesc, c.tfob1>>
    ELSE <<value>>

\* mutant: the arm for fend comes before the arm for fesc
EncodeByteFendFirst(value, c) ==
    IF value = c.fend THEN <<c.fesc, c.tfend>>
    ELSE IF value = c.fesc THEN <<c.fesc, c.tfesc>>
    ELSE IF value = c.ob1 THEN <<c.fesc, c.tfob1>>
    ELSE IF value = c.ob2 THEN <<c.fesc, c.tfob2>>
    ELSE <<value>>

\* the match on one payload byte: the bytes pushed for it, first arm first
EncodeByte(value, c) ==
    IF value = c.fesc THEN <<c.fesc, c.tfesc>>
    ELSE IF value = c.fend THEN <<c.fesc, c.tfend>>
    ELSE IF value = c.ob1 THEN <<c.fesc, c.tfob1>>
    ELSE IF value = c.ob2 THEN <<c.fesc, c.tfob2>>
    ELSE <<value>>

PushAll(out, bs) ==
    IF Len(bs) = 1 THEN Push(out, bs[1]) ELSE Push(Push(out, bs[1]), bs[2])

----------------------------------------------------------------------------
(* decode, lines 231-279 *)

\* mutant: the last byte is checked before the first
PreCheckFinalFirst(f, c) ==
    IF Len(f) < MinDecodeInput THEN "TooFewData"
    ELSE IF Len(f) > MaxDecodeInput THEN "TooMuchData"
    ELSE IF f[Len(f)] # c.fend THEN "MissingFinalFend"
    ELSE IF f[1] # c.fend THEN "MissingFirstFend"
    ELSE "None"

\* the four checks made before the scan, in the code's order
PreCheck(f, c) ==
    IF Len(f) < MinDecodeInput THEN "TooFewData"
    ELSE IF Len(f) > MaxDecodeInput THEN "TooMuchData"
    ELSE IF f[1] # c.fend THEN "MissingFirstFend"
    ELSE IF f[Len(f)] # c.fend THEN "MissingFinalFend"
    ELSE "None"

\* input[1..input.len() - 1]
InteriorLen(f) == Len(f) - 2
InteriorAt(f, k) == f[k + 1]

\* mutant: tfend and tfesc give each other's byte
TradeByteSwapped(val, c) ==
    IF val = c.tfend THEN c.fesc
    ELSE IF val = c.tfesc THEN c.fend
    ELSE IF val = c.tfob1 THEN c.ob1
    ELSE IF val = c.tfob2 THEN c.ob2
    ELSE -1

\* mutant: a byte that is no substitution code is taken as it is
TradeByteLenient(val, c) ==
    IF val = c.tfend THEN c.fend
    ELSE IF val = c.tfesc THEN c.fesc
    ELSE IF val = c.tfob1 THEN c.ob1
    ELSE IF val = c.tfob2 THEN c.ob2
    ELSE val

\* the inner match on the byte after a FESC: the byte pushed, or -1 for
\* the arm `_ => return Err(MissingTradeChar)`
TradeByte(val, c) ==
    IF val = c.tfend THEN c.fend
    ELSE IF val = c.tfesc THEN c.fesc
    ELSE IF val = c.tfob1 THEN c.ob1
    ELSE IF val = c.tfob2 THEN c.ob2
    ELSE -1

\* mutant: the arm for fend is missing
OuterArmNoFend(val, c) ==
    IF val = c.fesc THEN "escape" ELSE "other"

\* the outer match on a byte read in the loop
OuterArm(val, c) ==
    IF val = c.fesc THEN "escape"
    ELSE IF val = c.fend THEN "fend"
    ELSE "other"

\* mutant: the limit of the comment on TooMuchDecodedData (259)
FinalCheck259(out) ==
    IF Len(out) > MaxDecodedData - 1 THEN Err("TooMuchDecodedData") ELSE Ok(out)

\* if output.len() > 260 { Err(TooMuchDecodedData) } else Ok(output)
FinalCheck(out) ==
    IF Len(out) > MaxDecodedData THEN Err("TooMuchDecodedData") ELSE Ok(out)

----------------------------------------------------------------------------
(* Inputs of the calls *)

\* the arguments of the crate documentation's custom SpecialChars
DefaultArgs == <<126, 125, 94, 93, 17, 49, 19, 51>>
DocArgs == <<113, 112, 81, 80, 17, 49, 19, 51>>
\* the default values with every byte and its substitution code exchanged
SwappedArgs == <<94, 93, 126, 125, 49, 17, 51, 19>>

\* a byte that is none of the special characters in use
PlainBytes == {0}

\* arguments of new: the two tuples above with up to two positions overwritten
\* by a value of the tuple or by a plain byte (all 28 pairs of positions can
\* be made equal, and so can three positions or two pairs)
ArgValues(a) == {a[i] : i \in 1..8} \cup PlainBytes
NewArgs ==
    { [[a EXCEPT ![j1] = v1] EXCEPT ![j2] = v2] :
        <<a, j1, v1, j2, v2>> \in
            UNION { {b} \X (1..8) \X ArgValues(b) \X (1..8) \X ArgValues(b)
                    : b \in {DefaultArgs, DocArgs} } }

\* SpecialChars values built as struct literals (all fields are pub), with
\* values that new() would reject
LiteralChars ==
    { [DefaultChars EXCEPT !.fesc = 126, !.tfob2 = 49],   \* fesc = fend, tfob2 = tfob1
      [DefaultChars EXCEPT !.ob1 = 126, !.tfesc = 94],    \* ob1 = fend, tfesc = tfend
      [DefaultChars EXCEPT !.ob2 = 17, !.tfob1 = 93] }    \* ob2 = ob1, tfob1 = tfesc

CodecChars ==
    {DefaultChars, SpecialCharsNew(DocArgs).val, SpecialCharsNew(SwappedArgs).val}
    \cup LiteralChars

SeqsUpTo(S, n) == UNION { [1..k -> S] : k \in 0..n }
Fill(unit, n) == [i \in 1..(n * Len(unit)) |-> unit[((i - 1) % Len(unit)) + 1]]

PayloadBytes(c) ==
    {c.fend, c.fesc, c.tfend, c.tfesc, c.ob1, c.tfob1, c.ob2, c.tfob2, 126, 125}
    \cup PlainBytes

ExamplePayloads ==
    { <<0, 1, 0, 254>>,                          \* tests::encode_test
      <<0, 0, 2, 1, 3, 249>>,                    \* tests::encode_start_measumement
      <<1, 126, 112, 80, 0, 5, 128, 9, 226>> }   \* crate doc, custom chars

Payloads(c) ==
    SeqsUpTo(PayloadBytes(c), MaxShort)
    \cup ExamplePayloads
    \cup { Fill(<<b>>, n) : b \in {c.fesc} \cup PlainBytes,
                            n \in {MaxEncodeData, MaxEncodeData + 1} }

FrameBytes(c) ==
    {c.fend, c.fesc, c.tfend, c.tfesc, c.ob1, c.tfob1, c.ob2, c.tfob2}
    \cup PlainBytes
FrameEnds(c) == {c.fend} \cup PlainBytes

ExampleFrames ==
    { <<126, 0, 1, 0, 254, 126>>,     \* tests::decode_test
      <<0, 1, 0, 254, 126>>,          \* no leading fend
      <<126, 1, 125, 255, 126>>,      \* invalid code after the escape
      <<126, 1, 126, 2, 126>> }       \* fend inside the frame

LongInteriors(c) ==
    { Fill(u, n) \o t :
        u \in {<<b>> : b \in PlainBytes} \cup {<<c.fesc, c.tfend>>},
        n \in {MaxDecodedData, MaxDecodedData + 1},
        t \in {<<>>, <<c.fend>>, <<c.fesc>>} }
    \cup { Fill(<<b>>, n) : b \in PlainBytes,
                            n \in {MaxDecodeInput - 2, MaxDecodeInput - 1} }

Frames(c) ==
    {<<>>} \cup { <<b>> : b \in FrameEnds(c) }
    \cup { <<a>> \o m \o <<b>> :
             a \in FrameEnds(c), b \in FrameEnds(c),
             m \in SeqsUpTo(FrameBytes(c), MaxInterior) \cup LongInteriors(c) }
    \cup ExampleFrames

\* decode is handed the frame encode just returned, or a received frame
DecodeInputs ==
    IF encRes = NotCalled THEN Frames(s_chars)
    ELSE IF encRes.ok THEN {encRes.val}
    ELSE {}

----------------------------------------------------------------------------
(* The calls *)

New(a) ==
    /\ pc = "idle"
    /\ newRes = NewNotCalled
    /\ args' = a
    /\ newRes' = SpecialCharsNew(a)
    /\ s_chars' = IF newRes'.ok THEN newRes'.val ELSE s_chars
    /\ UNCHANGED <<data, enc_pos, enc_out, encRes, input, pos, output, decRes, pc>>

EncodeBegin(d) ==
    /\ pc = "idle"
    /\ encRes = NotCalled
    /\ decRes = NotCalled
    /\ data' = d
    /\ IF TooMuchEncodeData(d)
       THEN /\ encRes' = Err("TooMuchData")
            /\ UNCHANGED <<enc_pos, enc_out, pc>>
       ELSE /\ enc_out' = Push(<<>>, s_chars.fend)
            /\ enc_pos' = 1
            /\ pc' = "encode"
            /\ UNCHANGED encRes
    /\ UNCHANGED <<s_chars, args, newRes, input, pos, output, decRes>>

EncodeStep ==
    /\ pc = "encode"
    /\ enc_pos <= Len(data)
    /\ enc_out' = PushAll(enc_out, EncodeByte(data[enc_pos], s_chars))
    /\ enc_pos' = enc_pos + 1
    /\ UNCHANGED <<s_chars, args, newRes, data, encRes, input, pos, output, decRes, pc>>

EncodeReturn ==
    /\ pc = "encode"
    /\ enc_pos > Len(data)
    /\ enc_out' = Push(enc_out, s_chars.fend)
    /\ encRes' = IF enc_out' = Overflow THEN Err("Panic") ELSE Ok(enc_out')
    /\ pc' = "idle"
    /\ UNCHANGED <<s_chars, args, newRes, data, enc_pos, input, pos, output, decRes>>

DecodeBegin(f) ==
    /\ pc = "idle"
    /\ decRes = NotCalled
    /\ input' = f
    /\ IF PreCheck(f, s_chars) # "None"
       THEN /\ decRes' = Err(PreCheck(f, s_chars))
            /\ pc' = "done"
            /\ UNCHANGED <<pos, output>>
       ELSE /\ output' = <<>>
            /\ pos' = 1
            /\ pc' = "Normal"
            /\ UNCHANGED decRes
    /\ UNCHANGED <<s_chars, args, newRes, data, enc_pos, enc_out, encRes>>

\* while let Some(value) = input_iter.next() { match *value { ... } }
DecodeNext ==
    /\ pc = "Normal"
    /\ pos <= InteriorLen(input)
    /\ pos' = pos + 1
    /\ LET arm == OuterArm(InteriorAt(input, pos), s_chars) IN
       CASE arm = "escape" ->
              /\ pc' = "AfterEscape"
              /\ UNCHANGED <<output, decRes>>
         [] arm = "fend" ->
              /\ pc' = "done"
              /\ decRes' = Err("FendCharInData")
              /\ UNCHANGED output
         [] OTHER ->
              /\ output' = Push(output, InteriorAt(input, pos))
              /\ IF output' = Overflow
                 THEN pc' = "done" /\ decRes' = Err("Panic")
                 ELSE UNCHANGED <<pc, decRes>>
    /\ UNCHANGED <<s_chars, args, newRes, data, enc_pos, enc_out, encRes, input>>

\* val if val == s_chars.fesc => match input_iter.next() { ... }
DecodeTrade ==
    /\ pc = "AfterEscape"
    /\ LET some == pos <= InteriorLen(input)
           b == IF some THEN TradeByte(InteriorAt(input, pos), s_chars) ELSE -1
       IN  /\ pos' = IF some THEN pos + 1 ELSE pos
           /\ IF b = -1
              THEN /\ pc' = "done"
                   /\ decRes' = Err("MissingTradeChar")
                   /\ UNCHANGED output
              ELSE /\ output' = Push(output, b)
                   /\ IF output' = Overflow
                      THEN pc' = "done" /\ decRes' = Err("Panic")
                      ELSE pc' = "Normal" /\ UNCHANGED decRes
    /\ UNCHANGED <<s_chars, args, newRes, data, enc_pos, enc_out, encRes, input>>

\* the loop ends (next() yields None) and the length of the output is checked
DecodeReturn ==
    /\ pc = "Normal"
    /\ pos > InteriorLen(input)
    /\ decRes' = FinalCheck(output)
    /\ pc' = "done"
    /\ UNCHANGED <<s_chars, args, newRes, data, enc_pos, enc_out, encRes,
                   input, pos, output>>

----------------------------------------------------------------------------
(* Specifications *)

InitCalls ==
    /\ args = <<>>
    /\ newRes = NewNotCalled
    /\ data = <<>>
    /\ enc_pos = 0
    /\ enc_out = <<>>
    /\ encRes = NotCalled
    /\ input = <<>>
    /\ pos = 0
    /\ output = <<>>
    /\ decRes = NotCalled
    /\ pc = "idle"

\* the codec, called with one of the SpecialChars values of CodecChars
Init == s_chars \in CodecChars /\ InitCalls

Next ==
    \/ pc = "idle" /\ \E d \in Payloads(s_chars) : EncodeBegin(d)
    \/ EncodeStep
    \/ EncodeReturn
    \/ pc = "idle" /\ \E f \in DecodeInputs : DecodeBegin(f)
    \/ DecodeNext
    \/ DecodeTrade
    \/ DecodeReturn

Spec == Init /\ [][Next]_vars

\* the construction of SpecialChars
InitNew == s_chars = DefaultChars /\ InitCalls

NextNew == newRes = NewNotCalled /\ \E a \in NewArgs : New(a)

SpecNew == InitNew /\ [][NextNew]_vars

----------------------------------------------------------------------------
(* Vocabulary of the properties *)

CharValues(c) == {c.fend, c.fesc, c.tfend, c.tfesc, c.ob1, c.tfob1, c.ob2, c.tfob2}
Distinct(c) == Cardinality(CharValues(c)) = 8

\* the payload bytes that encode replaces by a two-byte sequence
IsSpecial(b, c) == b \in {c.fesc, c.fend, c.ob1, c.ob2}
NumSpecial(d, c) == Cardinality({i \in 1..Len(d) : IsSpecial(d[i], c)})

\* a decode call has been made on `input`, which passed the four checks
DecodeCalled == pc \in {"Normal", "AfterEscape", "done"}
WellFramed ==
    /\ Len(input) >= 4
    /\ Len(input) <= 1000
    /\ input[1] = s_chars.fend
    /\ input[Len(input)] = s_chars.fend

\* decode was handed the frame that encode returned for `data`
RoundTrip == encRes.ok /\ pc = "done" /\ input = encRes.val

----------------------------------------------------------------------------
(* C1 *)

\* every encode call with at most 260 bytes succeeds
EncodeSucceeds ==
    (encRes # NotCalled /\ Len(data) <= 260 /\ Distinct(s_chars)) => encRes.ok

\* C1 as stated: for every payload of 0..260 bytes (the empty and the one-byte
\* payloads included) and pairwise distinct special characters, encode
\* succeeds and decode of its result returns exactly the payload.
C1_RoundTripAll ==
    /\ EncodeSucceeds
    /\ (RoundTrip /\ Distinct(s_chars)) => decRes = Ok(data)

\* C1 amended: encode succeeds, and decode of its result returns exactly the
\* payload when the frame has at least 4 bytes (the payload has two bytes or
\* more, or is one byte that is escaped); for the empty payload and for one
\* byte that is not escaped the frame has 2 or 3 bytes and decode fails with
\* TooFewData.
C1_RoundTrip ==
    /\ EncodeSucceeds
    /\ (RoundTrip /\ Distinct(s_chars)) =>
          IF Len(data) + NumSpecial(data, s_chars) >= 2
          THEN decRes = Ok(data)
          ELSE decRes = Err("TooFewData")

C1_Witness ==
    /\ RoundTrip
    /\ Distinct(s_chars)
    /\ Len(data) = 260
    /\ data[1] = s_chars.fesc
    /\ decRes = Ok(data)

----------------------------------------------------------------------------
(* C2 *)

\* C2: with pairwise distinct special characters the output of encode starts
\* and ends with fend and holds fend at no other position.
C2_Delimiters ==
    (encRes.ok /\ Distinct(s_chars)) =>
        LET v == encRes.val IN
        /\ Len(v) >= 2
        /\ v[1] = s_chars.fend
        /\ v[Len(v)] = s_chars.fend
        /\ \A i \in 2..(Len(v) - 1) : v[i] # s_chars.fend

C2_Witness ==
    /\ encRes.ok
    /\ Distinct(s_chars)
    /\ Len(data) = 2
    /\ data[1] = s_chars.fend
    /\ data[2] = s_chars.fend

----------------------------------------------------------------------------
(* C3 *)

\* C3: new returns Err(DuplicateSpecialChar) exactly when two of its 8
\* arguments are equal, and otherwise Ok with every field holding the
\* argument of its name.
C3_NewContract ==
    newRes # NewNotCalled =>
        IF Cardinality({args[i] : i \in 1..8}) < 8
        THEN newRes = NewErr("DuplicateSpecialChar")
        ELSE /\ newRes.ok
             /\ newRes.val.fend = args[1]
             /\ newRes.val.fesc = args[2]
             /\ newRes.val.tfend = args[3]
             /\ newRes.val.tfesc = args[4]
             /\ newRes.val.ob1 = args[5]
             /\ newRes.val.tfob1 = args[6]
             /\ newRes.val.ob2 = args[7]
             /\ newRes.val.tfob2 = args[8]

\* only the last two arguments are equal
C3_Witness ==
    /\ newRes = NewErr("DuplicateSpecialChar")
    /\ args[7] = args[8]
    /\ Cardinality({args[i] : i \in 1..8}) = 7

----------------------------------------------------------------------------
(* C4 *)

\* C4: the first failing check among length < 4, length > 1000, first byte,
\* last byte decides the error, and none of the four errors is returned once
\* all four pass.
C4_PreconditionOrder ==
    DecodeCalled =>
        LET n == Len(input)
            expected ==
                IF n < 4 THEN "TooFewData"
                ELSE IF n > 1000 THEN "TooMuchData"
                ELSE IF input[1] # s_chars.fend THEN "MissingFirstFend"
                ELSE IF input[n] # s_chars.fend THEN "MissingFinalFend"
                ELSE "None"
        IN  IF expected # "None"
            THEN pc = "done" /\ decRes = Err(expected)
            ELSE decRes.err \notin {"TooFewData", "TooMuchData",
                                     "MissingFirstFend", "MissingFinalFend"}

\* a frame wrong at both ends
C4_Witness ==
    /\ pc = "done"
    /\ Len(input) = 4
    /\ input[1] # s_chars.fend
    /\ input[4] # s_chars.fend
    /\ decRes = Err("MissingFirstFend")

----------------------------------------------------------------------------
(* C5 *)

\* the byte the scan is about to read, if there is one
HasNextByte == pos <= Len(input) - 2
NextByte == input[pos + 1]

\* the value the claim pairs with a substitution code (when codes coincide,
\* the first of tfend, tfesc, tfob1, tfob2 in that order)
Substituted(b, c) ==
    CASE b = c.tfend -> c.fend
      [] b = c.tfesc -> c.fesc
      [] b = c.tfob1 -> c.ob1
      [] OTHER -> c.ob2

----------------------------------------------------------------------------
(* C6 *)

\* fend differs from fesc and from the four substitution codes
FendApart(c) == c.fend \notin {c.fesc, c.tfend, c.tfesc, c.tfob1, c.tfob2}

HasInteriorFend == \E k \in 2..(Len(input) - 1) : input[k] = s_chars.fend
\* index, in the interior, of the first fend
FirstInteriorFend ==
    (CHOOSE k \in 2..(Len(input) - 1) :
        /\ input[k] = s_chars.fend
        /\ \A j \in 2..(k - 1) : input[j] # s_chars.fend) - 1

\* what decode returns for a frame with a fend in its interior: not a
\* payload, but FendCharInData with that fend the last byte read, or
\* MissingTradeChar at or before it
FendRejected ==
    \/ decRes = Err("FendCharInData") /\ pos = FirstInteriorFend + 1
    \/ decRes = Err("MissingTradeChar") /\ pos <= FirstInteriorFend + 1

----------------------------------------------------------------------------
(* C7 *)

----------------------------------------------------------------------------
(* C8 *)

\* C8: encode fails exactly when the payload has more than 260 bytes, and
\* then with TooMuchData, whatever the special characters.
C8_EncodeError ==
    /\ enc_out # Overflow
    /\ encRes # NotCalled =>
          IF Len(data) <= 260 THEN encRes.ok ELSE encRes = Err("TooMuchData")

C8_Witness ==
    /\ encRes.ok
    /\ Len(data) = 260
    /\ ~Distinct(s_chars)

----------------------------------------------------------------------------
(* C9 *)

\* C9: the output of encode has |p| + 2 bytes plus one for every payload byte
\* equal to fesc, fend, ob1 or ob2, hence between |p| + 2 and 2|p| + 2.
C9_EncodeLength ==
    encRes.ok =>
        LET n == Len(encRes.val) IN
        /\ n = Len(data) + 2 + NumSpecial(data, s_chars)
        /\ n >= Len(data) + 2
        /\ n <= 2 * Len(data) + 2

C9_Witness ==
    /\ encRes.ok
    /\ Len(data) = 260
    /\ Len(encRes.val) = 522

----------------------------------------------------------------------------
(* C10 *)

\* the second byte of the pair the first matching rule gives
RuleCode(b, c) ==
    CASE b = c.fesc -> c.tfesc
      [] b = c.fend -> c.tfend
      [] b = c.ob1 -> c.tfob1
      [] OTHER -> c.tfob2

\* index in the output of the first byte written for payload byte i
OutIndex(d, i, c) ==
    1 + i + Cardinality({k \in 1..(i - 1) : IsSpecial(d[k], c)})

\* C10: the output of encode is fend, then for each payload byte in order
\* fesc and the code of the first rule it matches (fesc, fend, ob1, ob2) or
\* the byte itself if it matches none, then fend; only the configured values
\* are escaped.
C10_EncodeOutput ==
    (encRes.ok /\ pc = "idle") =>
        LET v == encRes.val
            c == s_chars
        IN  /\ v[1] = c.fend
            /\ Len(v) = OutIndex(data, Len(data) + 1, c)
            /\ v[Len(v)] = c.fend
            /\ \A i \in 1..Len(data) :
                  LET k == OutIndex(data, i, c) IN
                  IF IsSpecial(data[i], c)
                  THEN v[k] = c.fesc /\ v[k + 1] = RuleCode(data[i], c)
                  ELSE v[k] = data[i]
            /\ (c = MkChars(DocArgs) /\ data = <<1, 126, 112, 80, 0, 5, 128, 9, 226>>)
                  => v = <<113, 1, 126, 112, 80, 80, 0, 5, 128, 9, 226, 113>>
            /\ (c = DefaultChars /\ data = <<0, 1, 0, 254>>)
                  => v = <<126, 0, 1, 0, 254, 126>>
            /\ NumSpecial(data, c) = 0 => v = <<c.fend>> \o data \o <<c.fend>>

\* a payload byte equal to both fesc and fend
C10_Witness ==
    /\ encRes.ok
    /\ pc = "idle"
    /\ s_chars.fesc = s_chars.fend
    /\ Len(data) = 2
    /\ data[2] = s_chars.fend

====
